---- MODULE Spec2Model ----
(***************************************************************************)
(* The scheduled capture-and-notify pipeline of screenshotter.py: startup  *)
(* (recipient loading, secret resolution, the credential check), the       *)
(* scheduler loop of main, one cycle of process_capture_and_email with its *)
(* Playwright scope, and send_email.                                       *)
(*                                                                         *)
(* Python values: a str is a sequence of one-character strings, None is    *)
(* the marker None below, a list is a sequence, and an optional dict       *)
(* (email_config) is <<>> for None and <<record>> for a dict.              *)
(***************************************************************************)
EXTENDS Naturals, Sequences, FiniteSets

\* Number of scheduler cycles explored (the loop of main is unbounded).
MaxCycles == 2

\* The default of CAPTURE_INTERVAL_SECONDS.
CAPTURE_INTERVAL_SECONDS == 1800

\* Sizes of the recipient files explored when loading is checked on its own.
MaxLines == 2
MaxLineLen == 2

None == <<"None">>

Whitespace == {" ", "\n"}
Digits == {"5", "8", "7"}

\* Python truthiness of an optional string: None and "" are falsy.
Truthy(v) == v # None /\ v # <<>>

RECURSIVE lstrip(_)
lstrip(s) == IF s # <<>> /\ Head(s) \in Whitespace THEN lstrip(Tail(s)) ELSE s

RECURSIVE rstrip(_)
rstrip(s) ==
    IF s # <<>> /\ s[Len(s)] \in Whitespace
    THEN rstrip(SubSeq(s, 1, Len(s) - 1))
    ELSE s

\* str.strip()
strip(s) == rstrip(lstrip(s))

\* int(s) succeeds: optional surrounding whitespace around at least one digit.
IsInt(s) ==
    /\ s # None
    /\ strip(s) # <<>>
    /\ \A i \in 1..Len(strip(s)) : strip(s)[i] \in Digits

\* Representative strings.
Addr_a == <<"a">>
Port587 == <<"5", "8", "7">>

\* The state of the recipient file on disk: missing, present but unreadable,
\* or its lines.
FileMissing == <<"missing">>
FileUnreadable == <<"unreadable">>

\* Lines as iteration over the file yields them, each with its line end.
RecipientFiles ==
    { FileMissing, FileUnreadable, << <<" ", "\n">> >>,
      << <<"a", "\n">>, <<"\n">>, <<" ", " ", "\n">>, <<" ", "b", " ", "\n">> >> }

\* All sequences over S of length at most n.
BoundedSeq(S, n) == UNION { [1..k -> S] : k \in 0..n }

\* Every file of at most MaxLines lines over an address character and a
\* blank, missing and unreadable files included.
LineAlphabet == {"a", " "}
FileLines == { l \o <<"\n">> : l \in BoundedSeq(LineAlphabet, MaxLineLen) }
AllRecipientFiles ==
    {FileMissing, FileUnreadable} \cup BoundedSeq(FileLines, MaxLines)

\* Values an environment variable can have: unset, or a string.
CredentialEnv == {None, <<>>, Addr_a}
OptionalEnv == {None, <<"s">>}
PortEnv == {None, Port587}
ProjectEnv == {None, <<>>, <<"p">>}
RecipientEnv == {None, <<"r">>}
\* EMAIL_SMTP_SERVER_PORT_SECRET: its default name, or set to the empty string.
PortSecretNames == {<<>>, <<"n">>}

\* The secrets main looks up, in the order of its calls.
SecretOrder ==
    << "GOOGLE_EMAIL_SECRET", "GOOGLE_PASSWORD_SECRET", "EMAIL_SENDER_SECRET",
       "EMAIL_SMTP_SERVER_SECRET", "EMAIL_SMTP_SERVER_PORT_SECRET",
       "EMAIL_SMTP_USER_SECRET", "EMAIL_SMTP_PASSWORD_SECRET" >>

\* Payloads the secret backend can hold for a secret, before access_secret
\* strips them.
SecretPayloads(name) ==
    CASE name \in {"GOOGLE_EMAIL_SECRET", "GOOGLE_PASSWORD_SECRET"} ->
            {<<" ">>, <<"a", "\n">>}
      [] name \in {"EMAIL_SENDER_SECRET", "EMAIL_SMTP_SERVER_SECRET"} ->
            {<<>>, <<"s">>}
      [] name = "EMAIL_SMTP_SERVER_PORT_SECRET" -> {Port587, <<"x">>}
      [] OTHER -> {<<"u">>}

VARIABLES
    \* process environment and disk, read at import and by main
    USE_SECRETS_MANAGER, GCP_PROJECT_ID,
    GOOGLE_EMAIL, GOOGLE_PASSWORD,
    EMAIL_SENDER, EMAIL_SMTP_SERVER, EMAIL_SMTP_SERVER_PORT,
    EMAIL_SMTP_USER, EMAIL_SMTP_PASSWORD,
    EMAIL_RECIPIENT, EMAIL_SMTP_SERVER_PORT_SECRET, recipients_file,
    \* locals of main
    \* (locals holds google_email, google_password, sender, smtp_server,
    \* smtp_port, smtp_user and smtp_password, None while unassigned)
    recipients, locals, email_config,
    \* control (secret_idx: the next entry of SecretOrder to resolve)
    pc, secret_idx, cycle, interrupted,
    \* the message send_email is building (<<>> before it is built) and the
    \* messages handed to the SMTP server in this cycle
    msg, outbox,
    \* the interval sleeps the loop has completed, each with its duration
    sleeps,
    \* the exit status of the process: {} while it runs, {code} once it ended
    exit_code,
    \* the Playwright driver and the browsers it holds
    playwright, sessions,
    \* the screenshot file: 0 when absent, else the cycle that wrote it
    artifact,
    \* what has happened so far
    secret_lookups, recipient_loads, scopes, teardowns, captures, notifications,
    \* what has happened in the current cycle
    \* (visited: the states of the cycle's state machine entered so far)
    visited, error, handler, result, smtp_opened, smtp_connected, sent

envVars ==
    << USE_SECRETS_MANAGER, GCP_PROJECT_ID, GOOGLE_EMAIL, GOOGLE_PASSWORD,
       EMAIL_SENDER, EMAIL_SMTP_SERVER, EMAIL_SMTP_SERVER_PORT,
       EMAIL_SMTP_USER, EMAIL_SMTP_PASSWORD, EMAIL_RECIPIENT,
       EMAIL_SMTP_SERVER_PORT_SECRET, recipients_file >>

mainLocals == << recipients, locals, email_config >>

\* The state of the cycle's state machine the cycle is in.
phase == visited[Len(visited)]

google_email == locals.google_email
google_password == locals.google_password

browserVars == << playwright, sessions, scopes, teardowns >>

cycleVars ==
    << visited, error, handler, result, smtp_opened, smtp_connected, sent,
       msg, outbox >>

vars ==
    << envVars, mainLocals, pc, secret_idx, cycle, sleeps, interrupted,
       exit_code, browserVars, artifact,
       secret_lookups, recipient_loads, captures, notifications, cycleVars >>

Init ==
    /\ USE_SECRETS_MANAGER \in BOOLEAN
    /\ GCP_PROJECT_ID \in ProjectEnv
    /\ GOOGLE_EMAIL \in CredentialEnv
    /\ GOOGLE_PASSWORD \in CredentialEnv
    /\ EMAIL_SENDER \in OptionalEnv
    /\ EMAIL_SMTP_SERVER \in OptionalEnv
    /\ EMAIL_SMTP_SERVER_PORT \in PortEnv
    /\ EMAIL_SMTP_USER \in OptionalEnv
    /\ EMAIL_SMTP_PASSWORD \in OptionalEnv
    /\ EMAIL_RECIPIENT \in RecipientEnv
    /\ EMAIL_SMTP_SERVER_PORT_SECRET \in PortSecretNames
    /\ recipients_file \in RecipientFiles
    \* a deployment configures one resolution mode: the variables of the
    \* other mode are left unset (the code never reads them)
    /\ USE_SECRETS_MANAGER =>
          /\ GOOGLE_EMAIL = None /\ GOOGLE_PASSWORD = None
          /\ EMAIL_SENDER = None /\ EMAIL_SMTP_SERVER = None
          /\ EMAIL_SMTP_SERVER_PORT = None
          /\ EMAIL_SMTP_USER = None /\ EMAIL_SMTP_PASSWORD = None
    /\ ~USE_SECRETS_MANAGER =>
          /\ GCP_PROJECT_ID = None
          /\ EMAIL_SMTP_SERVER_PORT_SECRET = <<"n">>
          \* the notification settings: all set, all unset, or one unset
          /\ Cardinality({ i \in 1..5 :
                 << EMAIL_SENDER, EMAIL_SMTP_SERVER, EMAIL_SMTP_SERVER_PORT,
                    EMAIL_SMTP_USER, EMAIL_SMTP_PASSWORD >>[i] = None })
                \in {0, 1, 5}
    /\ recipients = <<>>
    /\ locals = [google_email |-> None, google_password |-> None,
                 sender |-> None, smtp_server |-> None, smtp_port |-> None,
                 smtp_user |-> None, smtp_password |-> None]
    /\ email_config = <<>>
    /\ pc = "main" /\ secret_idx = 1 /\ cycle = 0 /\ interrupted = FALSE
    /\ exit_code = {}
    /\ sleeps = <<>>
    /\ playwright = FALSE /\ sessions = 0 /\ scopes = 0 /\ teardowns = 0
    /\ artifact = 0
    /\ secret_lookups = 0 /\ recipient_loads = 0
    /\ captures = 0 /\ notifications = 0
    /\ visited = <<"Idle">> /\ error = "none" /\ handler = "none"
    /\ result = "none" /\ smtp_opened = 0 /\ smtp_connected = FALSE
    /\ sent = 0 /\ msg = <<>> /\ outbox = <<>>

(***************************************************************************)
(* Startup                                                                 *)
(***************************************************************************)

\* A comprehension that filters on the stripped line but keeps the raw one.
RECURSIVE raw_nonblank_lines(_)
raw_nonblank_lines(lines) ==
    IF lines = <<>> THEN <<>>
    ELSE IF strip(Head(lines)) # <<>>
         THEN <<Head(lines)>> \o raw_nonblank_lines(Tail(lines))
         ELSE raw_nonblank_lines(Tail(lines))

\* [line.strip() for line in f if line.strip()]
RECURSIVE nonblank_lines(_)
nonblank_lines(lines) ==
    IF lines = <<>> THEN <<>>
    ELSE IF strip(Head(lines)) # <<>>
         THEN <<strip(Head(lines))>> \o nonblank_lines(Tail(lines))
         ELSE nonblank_lines(Tail(lines))

\* A loader that falls back to EMAIL_RECIPIENT when the file yields nothing.
load_recipient_emails_or_default(file, default_recipient) ==
    IF file # FileMissing /\ file # FileUnreadable /\ nonblank_lines(file) # <<>>
    THEN nonblank_lines(file)
    ELSE IF Truthy(default_recipient) THEN <<default_recipient>> ELSE <<>>

load_recipient_emails(file, default_recipient) ==
    IF file # FileMissing /\ file # FileUnreadable
    THEN nonblank_lines(file)
    ELSE IF Truthy(default_recipient) THEN <<default_recipient>> ELSE <<>>

\* {...} if recipients else None
build_email_config(rcpts, snd, srv, port, user, pwd) ==
    IF rcpts # <<>>
    THEN << [recipients |-> rcpts, sender |-> snd, server |-> srv,
             port |-> port, user |-> user, password |-> pwd] >>
    ELSE <<>>

\* The local of main that each secret of SecretOrder is assigned to.
LocalOf ==
    << "google_email", "google_password", "sender", "smtp_server", "smtp_port",
       "smtp_user", "smtp_password" >>

email_config_of(rcpts, l) ==
    build_email_config(rcpts, l.sender, l.smtp_server, l.smtp_port,
                       l.smtp_user, l.smtp_password)

\* main, up to the mode switch: the recipient list is loaded first.
main_load_recipients ==
    /\ pc = "main"
    /\ recipients' = load_recipient_emails(recipients_file, EMAIL_RECIPIENT)
    /\ recipient_loads' = recipient_loads + 1
    /\ pc' = "resolve"
    /\ UNCHANGED << envVars, locals, email_config, secret_idx, cycle, sleeps,
                    interrupted, exit_code, browserVars, artifact, secret_lookups,
                    captures, notifications, cycleVars >>

\* The status of a process whose script runs to its end: main returned and
\* asyncio.run with it, or KeyboardInterrupt was caught and logged.
ExitCodeOnReturn == 0

\* The exit status once main has moved to next_pc.
exit_status(next_pc) ==
    IF next_pc = "exited" THEN {ExitCodeOnReturn} ELSE exit_code

\* The mode switch without the project id check.
project_id_unchecked == FALSE

\* if not GCP_PROJECT_ID
project_id_missing == ~Truthy(GCP_PROJECT_ID)

\* if USE_SECRETS_MANAGER: without a project id main returns at once.
main_secrets_mode ==
    /\ pc = "resolve"
    /\ USE_SECRETS_MANAGER
    /\ pc' = IF project_id_missing THEN "exited" ELSE "access_secret"
    /\ exit_code' = exit_status(pc')
    /\ UNCHANGED << envVars, mainLocals, secret_idx, cycle, sleeps, interrupted,
                    browserVars, artifact, secret_lookups, recipient_loads, captures,
                    notifications, cycleVars >>

\* access_secret: the payload of the latest version, stripped.
access_secret(payload) == strip(payload)

\* One statement of the try block of main: a lookup that returns or raises,
\* or the default port when the port secret has no name. After the last one
\* email_config is built. A lookup that raises ends main (except: return).
main_resolve_secret ==
    /\ pc = "access_secret"
    /\ LET name == SecretOrder[secret_idx]
           done(l) ==
               /\ locals' = l
               /\ secret_idx' = secret_idx + 1
               /\ IF secret_idx = Len(SecretOrder)
                  THEN /\ email_config' = email_config_of(recipients, l)
                       /\ pc' = "check_credentials"
                  ELSE UNCHANGED << email_config, pc >>
       IN IF name = "EMAIL_SMTP_SERVER_PORT_SECRET"
             /\ ~Truthy(EMAIL_SMTP_SERVER_PORT_SECRET)
          THEN /\ done([locals EXCEPT !.smtp_port = Port587])
               /\ UNCHANGED secret_lookups
          ELSE /\ secret_lookups' = secret_lookups + 1
               /\ \/ \E payload \in SecretPayloads(name) :
                        done([locals EXCEPT
                                ![LocalOf[secret_idx]] = access_secret(payload)])
                  \/ /\ pc' = "exited"
                     /\ UNCHANGED << locals, email_config, secret_idx >>
    /\ exit_code' = exit_status(pc')
    /\ UNCHANGED << envVars, recipients, cycle, sleeps, interrupted, browserVars,
                    artifact, recipient_loads, captures, notifications,
                    cycleVars >>

\* The else branch: every value is taken from the environment.
main_env_mode ==
    /\ pc = "resolve"
    /\ ~USE_SECRETS_MANAGER
    /\ locals' = [google_email |-> GOOGLE_EMAIL,
                  google_password |-> GOOGLE_PASSWORD,
                  sender |-> EMAIL_SENDER,
                  smtp_server |-> EMAIL_SMTP_SERVER,
                  smtp_port |-> IF Truthy(EMAIL_SMTP_SERVER_PORT)
                                THEN EMAIL_SMTP_SERVER_PORT ELSE Port587,
                  smtp_user |-> EMAIL_SMTP_USER,
                  smtp_password |-> EMAIL_SMTP_PASSWORD]
    /\ email_config' = email_config_of(recipients, locals')
    /\ pc' = "check_credentials"
    /\ UNCHANGED << envVars, recipients, secret_idx, cycle, sleeps, interrupted, exit_code,
                    browserVars, artifact, secret_lookups, recipient_loads, captures,
                    notifications, cycleVars >>

\* The check with `and` for `or`: one credential is enough to pass.
credentials_both_missing == ~Truthy(google_email) /\ ~Truthy(google_password)

\* if not google_email or not google_password
credentials_missing == ~Truthy(google_email) \/ ~Truthy(google_password)

\* The credential check before the loop: return, or enter while True.
main_check_credentials ==
    /\ pc = "check_credentials"
    /\ pc' = IF credentials_missing THEN "exited" ELSE "loop"
    /\ exit_code' = exit_status(pc')
    /\ UNCHANGED << envVars, mainLocals, secret_idx, cycle, sleeps, interrupted,
                    browserVars, artifact, secret_lookups, recipient_loads, captures,
                    notifications, cycleVars >>

(***************************************************************************)
(* One cycle: process_capture_and_email                                    *)
(***************************************************************************)

\* The awaited calls made inside the Playwright scope, in program order.
SessionSteps == << "launch", "new_context", "new_page", "goto_login" >>

LoginSteps ==
    << "click_login_with_google", "wait_for_email", "fill_email",
       "click_next_email", "wait_for_password", "fill_password",
       "click_next_password", "wait_for_networkidle" >>

\* A capture that takes the screenshot before the settle delay.
capture_shot_before_settle ==
    << "goto_teleop", "wait_for_body", "screenshot", "settle_sleep" >>

CaptureSteps == << "goto_teleop", "wait_for_body", "settle_sleep", "screenshot" >>

ScopeSteps == SessionSteps \o LoginSteps \o CaptureSteps \o << "browser_close" >>

StepSet(steps) == { steps[i] : i \in 1..Len(steps) }

IndexOf(step) == CHOOSE i \in 1..Len(ScopeSteps) : ScopeSteps[i] = step

\* The statement after `step`; after browser.close() the async with block ends.
NextStep(step) ==
    IF IndexOf(step) < Len(ScopeSteps)
    THEN ScopeSteps[IndexOf(step) + 1]
    ELSE "async_with_exit"

\* A loop that reads the recipient file again at the start of every cycle.
main_start_cycle_reloading ==
    /\ pc = "loop"
    /\ cycle < MaxCycles
    /\ cycle' = cycle + 1
    /\ visited' = <<"Idle">> /\ error' = "none" /\ handler' = "none"
    /\ result' = "none" /\ smtp_opened' = 0 /\ smtp_connected' = FALSE
    /\ sent' = 0 /\ msg' = <<>> /\ outbox' = <<>>
    /\ recipients' = load_recipient_emails(recipients_file, EMAIL_RECIPIENT)
    /\ recipient_loads' = recipient_loads + 1
    /\ pc' = "async_playwright"
    /\ UNCHANGED << envVars, locals, email_config, secret_idx, sleeps, interrupted, exit_code, browserVars,
                    artifact, secret_lookups, captures, notifications >>

\* while True: try: the next cycle starts and calls process_capture_and_email.
main_start_cycle ==
    /\ pc = "loop"
    /\ cycle < MaxCycles
    /\ cycle' = cycle + 1
    /\ visited' = <<"Idle">> /\ error' = "none" /\ handler' = "none"
    /\ result' = "none" /\ smtp_opened' = 0 /\ smtp_connected' = FALSE
    /\ sent' = 0 /\ msg' = <<>> /\ outbox' = <<>>
    /\ pc' = "async_playwright"
    /\ UNCHANGED << envVars, mainLocals, secret_idx, sleeps, interrupted, exit_code, browserVars,
                    artifact, secret_lookups, recipient_loads, captures, notifications >>

\* A loop that retries at once: the handler skips the interval sleep.
main_except_retries(kind) ==
    /\ error' = kind
    /\ handler' = "main"
    /\ result' = "failed"
    /\ pc' = "loop"

\* A loop whose handler gives up: the exception ends main.
main_except_exits(kind) ==
    /\ error' = kind
    /\ handler' = "none"
    /\ result' = "failed"
    /\ pc' = "exited"

\* except Exception as e: logging.error(...): the scheduler absorbs the
\* exception and goes on to the interval sleep.
main_except(kind) ==
    /\ error' = kind
    /\ handler' = "main"
    /\ result' = "failed"
    /\ pc' = "sleep"

\* An exit that stops the driver but leaves its browser running.
async_with_exit_leaks_browser ==
    /\ playwright' = FALSE
    /\ sessions' = sessions
    /\ teardowns' = teardowns + 1
    /\ UNCHANGED scopes

\* The exit of `async with async_playwright()`: the driver is stopped and
\* every browser it holds goes with it.
async_with_exit ==
    /\ playwright' = FALSE
    /\ sessions' = 0
    /\ teardowns' = teardowns + 1
    /\ UNCHANGED scopes

\* The block without its scope: an exception skips the exit.
raise_without_exit(kind) ==
    /\ UNCHANGED browserVars
    /\ visited' = Append(visited, "Closed")
    /\ main_except(kind)
    /\ UNCHANGED << smtp_opened, smtp_connected, sent, msg, outbox >>

\* The block with the exception swallowed: the cycle goes on to notify.
raise_then_notify(kind) ==
    /\ async_with_exit
    /\ visited' = Append(visited, "Closed")
    /\ error' = kind
    /\ pc' = "email_check"
    /\ UNCHANGED << handler, result, smtp_opened, smtp_connected, sent, msg, outbox >>

\* An exception raised by a statement inside the async with block: the scope
\* is exited, then the exception leaves process_capture_and_email.
raise_in_scope(kind) ==
    /\ async_with_exit
    /\ visited' = Append(visited, "Closed")
    /\ main_except(kind)
    /\ UNCHANGED << smtp_opened, smtp_connected, sent, msg, outbox >>

\* The waits of a cycle, each for something the remote page has to show.
WaitSteps ==
    { "wait_for_email", "wait_for_password", "wait_for_networkidle",
      "wait_for_body" }

\* Playwright's timeout when a call passes none, in milliseconds.
DefaultTimeout == 30000

\* Waits with the timeout disabled (Playwright: timeout=0).
timeout_disabled(step) == 0

\* The timeout each wait runs under, in milliseconds.
Timeout(step) ==
    CASE step = "wait_for_email" -> DefaultTimeout
      [] step = "wait_for_password" -> 10000
      [] step = "wait_for_networkidle" -> 30000
      [] step = "wait_for_body" -> 10000

\* What a wait does when the page never shows what it waits for: under a
\* timeout it raises TimeoutError once that has passed, without one it
\* never returns.
wait_unsatisfied(step, kind) ==
    IF Timeout(step) > 0
    THEN raise_in_scope(kind)
    ELSE /\ pc' = "hung"
         /\ UNCHANGED << browserVars, cycleVars >>

\* async with async_playwright() as p: the driver starts, or fails to start
\* and nothing is entered (so nothing is exited).
process_enter_scope ==
    /\ pc = "async_playwright"
    /\ \/ /\ playwright' = TRUE
          /\ scopes' = scopes + 1
          /\ pc' = "launch"
          /\ UNCHANGED << sessions, teardowns, cycleVars >>
       \/ /\ main_except("SessionInitError")
          /\ visited' = Append(visited, "Closed")
          /\ UNCHANGED << browserVars, smtp_opened, smtp_connected, sent, msg, outbox >>
    /\ UNCHANGED << envVars, mainLocals, secret_idx, cycle, sleeps, interrupted, exit_code,
                    artifact, secret_lookups, recipient_loads, captures, notifications >>

\* launch, new_context, new_page, page.goto(LOGIN_URL)
process_open_session ==
    /\ pc \in StepSet(SessionSteps)
    /\ \/ /\ pc' = NextStep(pc)
          /\ sessions' = IF pc = "launch" THEN sessions + 1 ELSE sessions
          /\ visited' = IF pc = "new_page"
                         THEN Append(visited, "SessionOpen") ELSE visited
          /\ UNCHANGED << playwright, scopes, teardowns, error, handler,
                          result, smtp_opened, smtp_connected, sent, msg, outbox >>
       \/ raise_in_scope("SessionInitError")
    /\ UNCHANGED << envVars, mainLocals, secret_idx, cycle, sleeps, interrupted, exit_code,
                    artifact, secret_lookups, recipient_loads, captures, notifications >>

\* handle_google_login: each click and fill returns or raises; each wait
\* returns, or the page never shows what it waits for.
handle_google_login ==
    /\ pc \in StepSet(LoginSteps)
    /\ \/ /\ pc' = NextStep(pc)
          /\ visited' = IF pc = "wait_for_networkidle"
                         THEN Append(visited, "Authenticated") ELSE visited
          /\ UNCHANGED << browserVars, error, handler, result, smtp_opened,
                          smtp_connected, sent, msg, outbox >>
       \/ /\ pc \notin WaitSteps
          /\ raise_in_scope("LoginError")
       \/ /\ pc \in WaitSteps
          /\ wait_unsatisfied(pc, "LoginTimeout")
    /\ UNCHANGED << envVars, mainLocals, secret_idx, cycle, sleeps, interrupted, exit_code,
                    artifact, secret_lookups, recipient_loads, captures, notifications >>

\* A screenshot that leaves a file already at the output path alone.
screenshot_keeps_existing(old, k) == IF old = 0 THEN k ELSE old

\* page.screenshot(path=output_path): the file at the output path becomes
\* the image of cycle k, whatever it held.
screenshot(old, k) == k

\* capture_screenshot: goto, wait for body, sleep 3 s (which cannot fail),
\* screenshot to output_path.
capture_screenshot ==
    /\ pc \in StepSet(CaptureSteps)
    /\ \/ /\ pc' = NextStep(pc)
          /\ IF pc = "screenshot"
             THEN /\ artifact' = screenshot(artifact, cycle)
                  /\ captures' = captures + 1
                  /\ visited' = Append(visited, "Captured")
             ELSE UNCHANGED << artifact, captures, visited >>
          /\ UNCHANGED << browserVars, error, handler, result, smtp_opened,
                          smtp_connected, sent, msg, outbox >>
       \/ /\ pc \in {"goto_teleop", "screenshot"}
          /\ raise_in_scope(IF pc = "screenshot" THEN "CaptureIOError"
                                                  ELSE "NavigationError")
          /\ UNCHANGED << artifact, captures >>
       \/ /\ pc \in WaitSteps
          /\ wait_unsatisfied(pc, "CaptureTimeout")
          /\ UNCHANGED << artifact, captures >>
    /\ UNCHANGED << envVars, mainLocals, secret_idx, cycle, sleeps, interrupted, exit_code,
                    secret_lookups, recipient_loads, notifications >>

\* await browser.close(), the last statement of the block
process_close_browser ==
    /\ pc = "browser_close"
    /\ \/ /\ pc' = NextStep(pc)
          /\ sessions' = 0
          /\ UNCHANGED << playwright, scopes, teardowns, cycleVars >>
       \/ raise_in_scope("BrowserCloseError")
    /\ UNCHANGED << envVars, mainLocals, secret_idx, cycle, sleeps, interrupted, exit_code,
                    artifact, secret_lookups, recipient_loads, captures, notifications >>

\* The block with the notification moved inside it: the scope is still open
\* when the cycle goes on to notify.
process_exit_scope_after_notify ==
    /\ pc = "async_with_exit"
    /\ pc' = "email_check"
    /\ UNCHANGED << browserVars, cycleVars >>
    /\ UNCHANGED << envVars, mainLocals, secret_idx, cycle, sleeps, interrupted, exit_code,
                    artifact, secret_lookups, recipient_loads, captures, notifications >>

\* The block ends normally: the scope is exited.
process_exit_scope ==
    /\ pc = "async_with_exit"
    /\ async_with_exit
    /\ visited' = Append(visited, "Closed")
    /\ pc' = "email_check"
    /\ UNCHANGED << error, handler, result, smtp_opened, smtp_connected, sent, msg, outbox >>
    /\ UNCHANGED << envVars, mainLocals, secret_idx, cycle, sleeps, interrupted, exit_code,
                    artifact, secret_lookups, recipient_loads, captures, notifications >>

(***************************************************************************)
(* Notification: the tail of process_capture_and_email, and send_email     *)
(***************************************************************************)

\* if email_config: (a dict is truthy, None is not)
email_configured == email_config # <<>>

\* ", ".join(recipients)
RECURSIVE join(_, _)
join(sep, items) ==
    IF items = <<>> THEN <<>>
    ELSE IF Len(items) = 1 THEN items[1]
    ELSE items[1] \o sep \o join(sep, Tail(items))

\* msg = EmailMessage() with its From and To headers, no attachment yet.
new_message(cfg) ==
    [From |-> cfg.sender, To |-> join(<<",", " ">>, cfg.recipients),
     attachments |-> <<>>]

\* A sender that mails every recipient a message of their own.
send_message_each(m, rcpts) == [i \in 1..Len(rcpts) |-> [m EXCEPT !.To = rcpts[i]]]

\* server.send_message(msg): the messages handed to the server.
send_message(m, rcpts) == << m >>

\* if email_config: send_email(...) else: log and return. Entering
\* send_email builds the message (subject, From, To, body), which succeeds
\* for every sender value, None included.
process_notify ==
    /\ pc = "email_check"
    /\ IF email_configured
       THEN /\ notifications' = notifications + 1
            /\ visited' = Append(visited, "Notified")
            /\ msg' = << new_message(email_config[1]) >>
            /\ pc' = "read_attachment"
       ELSE /\ pc' = "cycle_completed"
            /\ UNCHANGED << notifications, visited, msg >>
    /\ UNCHANGED << error, handler, result, smtp_opened, smtp_connected, sent, outbox >>
    /\ UNCHANGED << envVars, mainLocals, secret_idx, cycle, sleeps, interrupted, exit_code,
                    browserVars, artifact, secret_lookups, recipient_loads, captures >>

\* send_email without its except clauses: the exception reaches the loop.
send_email_propagates(kind) ==
    /\ error' = kind
    /\ handler' = "main"
    /\ smtp_connected' = FALSE
    /\ pc' = "sleep"

\* An except clause of send_email: the error is logged and send_email
\* returns normally (the SMTP with block, if entered, has closed the session).
send_email_except(kind) ==
    /\ error' = kind
    /\ handler' = "send_email"
    /\ smtp_connected' = FALSE
    /\ pc' = "cycle_completed"

\* msg.add_attachment(f.read(), ...): the bytes read from the artifact.
add_attachment(m, content) ==
    [m EXCEPT !.attachments = Append(@, content)]

\* The attachment handler without its return: send_email goes on to SMTP.
send_email_read_attachment_no_return ==
    /\ pc = "read_attachment"
    /\ \/ /\ artifact # 0
          /\ msg' = << add_attachment(msg[1], artifact) >>
          /\ pc' = "smtp_connect"
          /\ UNCHANGED << error, handler, smtp_connected >>
       \/ /\ error' = "AttachmentReadError"
          /\ handler' = "send_email"
          /\ pc' = "smtp_connect"
          /\ UNCHANGED << smtp_connected, msg >>
    /\ UNCHANGED << visited, result, smtp_opened, sent, outbox >>
    /\ UNCHANGED << envVars, mainLocals, secret_idx, cycle, sleeps, interrupted, exit_code,
                    browserVars, artifact, secret_lookups, recipient_loads, captures,
                    notifications >>

\* try: open(screenshot_path, "rb") ... except: log, return
send_email_read_attachment ==
    /\ pc = "read_attachment"
    /\ \/ /\ artifact # 0
          /\ msg' = << add_attachment(msg[1], artifact) >>
          /\ pc' = "smtp_connect"
          /\ UNCHANGED << error, handler, smtp_connected >>
       \/ /\ send_email_except("AttachmentReadError")
          /\ UNCHANGED msg
    /\ UNCHANGED << visited, result, smtp_opened, sent, outbox >>
    /\ UNCHANGED << envVars, mainLocals, secret_idx, cycle, sleeps, interrupted, exit_code,
                    browserVars, artifact, secret_lookups, recipient_loads, captures,
                    notifications >>

\* smtplib.SMTP(smtp_config["server"], int(smtp_config["port"])): int() raises
\* on a port that is no number; a falsy host makes no connection at all;
\* otherwise the connection is made or fails.
send_email_connect ==
    /\ pc = "smtp_connect"
    /\ LET cfg == email_config[1] IN
       IF ~IsInt(cfg.port)
       THEN /\ send_email_except("SmtpDeliveryError")
            /\ UNCHANGED smtp_opened
       ELSE IF ~Truthy(cfg.server)
       THEN /\ pc' = "starttls"
            /\ UNCHANGED << error, handler, smtp_opened, smtp_connected >>
       ELSE \/ /\ pc' = "starttls"
               /\ smtp_opened' = smtp_opened + 1
               /\ smtp_connected' = TRUE
               /\ UNCHANGED << error, handler >>
            \/ /\ send_email_except("SmtpDeliveryError")
               /\ UNCHANGED smtp_opened
    /\ UNCHANGED << visited, result, sent, msg, outbox >>
    /\ UNCHANGED << envVars, mainLocals, secret_idx, cycle, sleeps, interrupted, exit_code,
                    browserVars, artifact, secret_lookups, recipient_loads, captures,
                    notifications >>

\* server.starttls(); server.login(user, password): each needs the
\* connection, and returns or raises.
send_email_handshake ==
    /\ pc \in {"starttls", "smtp_login"}
    /\ \/ /\ smtp_connected
          /\ pc' = IF pc = "starttls" THEN "smtp_login" ELSE "send_message"
          /\ UNCHANGED << error, handler, smtp_connected >>
       \/ send_email_except("SmtpDeliveryError")
    /\ UNCHANGED << visited, result, smtp_opened, sent, msg, outbox >>
    /\ UNCHANGED << envVars, mainLocals, secret_idx, cycle, sleeps, interrupted, exit_code,
                    browserVars, artifact, secret_lookups, recipient_loads, captures,
                    notifications >>

\* server.send_message(msg), then the with block closes the session.
send_email_send ==
    /\ pc = "send_message"
    /\ \/ /\ outbox' = outbox \o send_message(msg[1], email_config[1].recipients)
          /\ sent' = Len(outbox')
          /\ smtp_connected' = FALSE
          /\ pc' = "cycle_completed"
          /\ UNCHANGED << error, handler >>
       \/ /\ send_email_except("SmtpDeliveryError")
          /\ UNCHANGED << sent, outbox >>
    /\ UNCHANGED << visited, result, smtp_opened, msg >>
    /\ UNCHANGED << envVars, mainLocals, secret_idx, cycle, sleeps, interrupted, exit_code,
                    browserVars, artifact, secret_lookups, recipient_loads, captures,
                    notifications >>

(***************************************************************************)
(* The scheduler loop of main                                              *)
(***************************************************************************)

\* process_capture_and_email returned: logging.info("Cycle completed ...")
main_cycle_completed ==
    /\ pc = "cycle_completed"
    /\ result' = "completed"
    /\ pc' = "sleep"
    /\ UNCHANGED << visited, error, handler, smtp_opened, smtp_connected, sent, msg, outbox >>
    /\ UNCHANGED << envVars, mainLocals, secret_idx, cycle, sleeps, interrupted, exit_code,
                    browserVars, artifact, secret_lookups, recipient_loads, captures,
                    notifications >>

\* await asyncio.sleep(CAPTURE_INTERVAL_SECONDS), then the loop repeats.
main_sleep ==
    /\ pc = "sleep"
    /\ sleeps' = Append(sleeps, CAPTURE_INTERVAL_SECONDS)
    /\ pc' = "loop"
    /\ UNCHANGED << envVars, mainLocals, secret_idx, cycle, interrupted, exit_code,
                    browserVars, artifact, secret_lookups, recipient_loads, captures,
                    notifications, cycleVars >>

\* The program points at which main awaits, where a cancellation is delivered.
AwaitPoints == {"async_playwright", "sleep"} \cup StepSet(ScopeSteps)

\* KeyboardInterrupt: asyncio.run cancels main at its current await; the
\* cancellation is no Exception, so it passes the except of the loop, leaving
\* the async with block (when inside it) on the way out.
KeyboardInterrupt ==
    /\ pc \in AwaitPoints
    /\ interrupted' = TRUE
    /\ pc' = "exited"
    /\ exit_code' = exit_status(pc')
    /\ IF playwright
       THEN async_with_exit /\ visited' = Append(visited, "Closed")
       ELSE UNCHANGED << browserVars, visited >>
    /\ UNCHANGED << error, handler, result, smtp_opened, smtp_connected, sent, msg, outbox >>
    /\ UNCHANGED << envVars, mainLocals, secret_idx, cycle, sleeps, artifact,
                    secret_lookups, recipient_loads, captures, notifications >>

Startup ==
    \/ main_load_recipients
    \/ main_secrets_mode
    \/ main_resolve_secret
    \/ main_env_mode
    \/ main_check_credentials

Cycle ==
    \/ main_start_cycle
    \/ process_enter_scope
    \/ process_open_session
    \/ handle_google_login
    \/ capture_screenshot
    \/ process_close_browser
    \/ process_exit_scope
    \/ process_notify
    \/ send_email_read_attachment
    \/ send_email_connect
    \/ send_email_handshake
    \/ send_email_send
    \/ main_cycle_completed
    \/ main_sleep

Next == Startup \/ Cycle \/ KeyboardInterrupt

Spec == Init /\ [][Next]_vars

\* Every call the program awaits returns or raises, and the interval sleep
\* ends; the interrupt is external and owes nothing.
FairSpec == Spec /\ WF_vars(Startup \/ Cycle)

(***************************************************************************)
(* Properties                                                              *)
(***************************************************************************)

\* The awaited calls of the block, and the point at which it ends normally.
InScope == pc \in StepSet(ScopeSteps) \cup {"async_with_exit"}

Count(seq, x) == Cardinality({ i \in 1..Len(seq) : seq[i] = x })

\* C1: whatever step of cycle k fails (session open, authentication, capture
\* or notification), cycle k+1 starts unless the process is interrupted, it
\* starts only out of the interval sleep, and once the loop has been entered
\* main ends only by the interrupt.
C1_FailedCycleIsFollowed ==
    /\ \A k \in 1..(MaxCycles - 1) :
          (cycle = k /\ error # "none") ~> (cycle = k + 1 \/ interrupted)
    /\ [][cycle' = cycle + 1 => pc = "loop"]_vars
    /\ [][pc' = "loop" /\ cycle >= 1 => pc = "sleep"]_vars
    /\ [](pc = "exited" /\ cycle >= 1 => interrupted)

\* Cycle 2 is running after a cycle 1 that took no screenshot.
C1_Witness ==
    cycle = 2 /\ pc = "launch" /\ captures = 0 /\ ~interrupted

\* C2 as stated: between cycles the number of session teardowns equals the
\* number of cycles started.
C2_TeardownPerCycle ==
    pc \in {"email_check", "cycle_completed", "sleep", "loop"} =>
        teardowns = cycle

\* C2, amended: the teardown (the exit of the Playwright scope) has run
\* exactly once for every cycle whose scope was entered, whichever later
\* step failed, and is pending for the scope the cycle is in; a cycle whose
\* driver start fails enters no scope and tears nothing down.
C2_TeardownPerScope ==
    /\ scopes <= cycle
    /\ IF InScope THEN playwright /\ teardowns + 1 = scopes
                  ELSE ~playwright /\ teardowns = scopes

\* Two cycles failed inside the scope and each was torn down once.
C2_Witness ==
    /\ pc = "sleep" /\ cycle = 2 /\ error = "LoginTimeout"
    /\ captures = 0 /\ scopes = 2 /\ teardowns = 2

\* C3: at most one browser session exists, and none (nor a running driver)
\* is left when a cycle is over and when the next one launches its browser.
C3_OneSession ==
    /\ sessions <= 1
    /\ pc = "launch" => sessions = 0
    /\ ~InScope => sessions = 0 /\ ~playwright

\* Cycle 2 holds a session after cycle 1 failed and was torn down.
C3_Witness ==
    /\ cycle = 2 /\ pc = "new_context" /\ sessions = 1
    /\ captures = 0 /\ teardowns = 1

\* C4: send_email is never invoked when the recipient list is empty, the
\* sender is unset or the SMTP host is unset.
C4_NotifierNeedsFullConfig ==
    notifications > 0 =>
        /\ recipients # <<>>
        /\ Truthy(locals.sender)
        /\ Truthy(locals.smtp_server)

\* C5: send_email is invoked at most once per cycle, only after this cycle
\* authenticated and captured, never in a cycle that failed, and over the
\* run no more often than screenshots were taken.
C5_NotifyOnlyAfterCapture ==
    /\ Count(visited, "Notified") <= 1
    /\ Count(visited, "Notified") = 1 =>
          /\ Count(visited, "Authenticated") = 1
          /\ Count(visited, "Captured") = 1
          /\ artifact = cycle
    /\ result = "failed" => Count(visited, "Notified") = 0
    /\ handler = "main" => Count(visited, "Notified") = 0
    /\ notifications <= captures

\* A second cycle notifies after its own capture.
C5_Witness ==
    /\ cycle = 2 /\ phase = "Notified" /\ notifications = 1 /\ captures = 1

\* Whether the states in seq follow one another in the order of `order`,
\* each at most once and none going backwards.
RankIn(order, x) == CHOOSE i \in 1..Len(order) : order[i] = x

Forward(order, seq) ==
    \A i \in 1..(Len(seq) - 1) : RankIn(order, seq[i]) < RankIn(order, seq[i + 1])

SpecOrder ==
    << "Idle", "SessionOpen", "Authenticated", "Captured", "Notified", "Closed" >>

CodeOrder ==
    << "Idle", "SessionOpen", "Authenticated", "Captured", "Closed", "Notified" >>

\* C6 as stated: the states of a cycle are visited in the order Idle,
\* SessionOpen, Authenticated, Captured, Notified, Closed, with the notifier
\* running before the session is torn down.
C6_NotifiedBeforeClosed ==
    Forward(SpecOrder, visited)

\* C6, amended: the states of a cycle are visited in the order Idle,
\* SessionOpen, Authenticated, Captured, Closed, Notified with no backward
\* transition; the session is torn down before the notifier runs, every
\* finished cycle has passed Closed, and Closed is the last state of every
\* cycle that does not notify.
C6_ClosedBeforeNotified ==
    /\ Forward(CodeOrder, visited)
    /\ phase = "Notified" =>
          /\ Count(visited, "Closed") = 1
          /\ sessions = 0 /\ ~playwright
    /\ pc \in {"cycle_completed", "sleep"} => Count(visited, "Closed") = 1
    /\ pc = "sleep" => phase \in {"Closed", "Notified"}

\* A successful cycle has notified after closing its session.
C6_Witness ==
    /\ pc = "sleep" /\ result = "completed" /\ sent = 1
    /\ visited = CodeOrder

\* The failure kinds raised inside the Playwright scope, and inside send_email.
ScopeErrors ==
    { "SessionInitError", "LoginError", "LoginTimeout", "NavigationError",
      "CaptureTimeout", "CaptureIOError", "BrowserCloseError" }

NotifierErrors == { "AttachmentReadError", "SmtpDeliveryError" }

\* C7 as stated: the except of the scheduler loop is never the handler that
\* absorbs a failure of a cycle.
C7_SchedulerNeverCatches ==
    handler # "main"

\* C7, amended: every failure of a cycle is absorbed at or below the
\* scheduler loop and none ends it: a session, login or capture failure
\* leaves process_capture_and_email as an exception and is absorbed by the
\* except of the loop, which records a failed cycle; an attachment or SMTP
\* failure is absorbed inside send_email.
C7_FailuresAbsorbed ==
    /\ error \in ScopeErrors => handler = "main" /\ result = "failed"
    /\ error \in NotifierErrors => handler = "send_email" /\ result # "failed"
    /\ error # "none" /\ pc = "exited" => interrupted
    /\ handler # "none" => error # "none"

\* A capture timeout was absorbed by the except of the loop.
C7_Witness ==
    pc = "sleep" /\ error = "CaptureTimeout" /\ handler = "main"

\* C8: a failure of the notifier stays inside send_email: an unreadable
\* artifact opens no SMTP session, an SMTP failure sends nothing, either way
\* send_email returns, the cycle is logged as completed, and the cycle makes
\* no second attempt.
C8_NotifierFailureContained ==
    /\ error = "AttachmentReadError" =>
          handler = "send_email" /\ smtp_opened = 0 /\ sent = 0
    /\ error = "SmtpDeliveryError" =>
          handler = "send_email" /\ sent = 0 /\ ~smtp_connected
    /\ handler = "send_email" =>
          /\ pc \in {"cycle_completed", "sleep", "loop", "exited"}
          /\ pc # "cycle_completed" => result = "completed"
    /\ smtp_opened <= 1
    /\ Count(visited, "Notified") <= 1

\* An SMTP step failed on an open session and the cycle completed.
C8_Witness ==
    /\ pc = "sleep" /\ error = "SmtpDeliveryError" /\ smtp_opened = 1
    /\ result = "completed"

\* C9: with secret-backend mode on and no project id, main ends before any
\* secret lookup, any session and any cycle.
C9_NoProjectNoLookup ==
    USE_SECRETS_MANAGER /\ ~Truthy(GCP_PROJECT_ID) =>
        /\ pc \in {"main", "resolve", "exited"}
        /\ secret_lookups = 0
        /\ cycle = 0 /\ scopes = 0 /\ sessions = 0

\* Startup has ended for want of a project id.
C9_Witness ==
    /\ USE_SECRETS_MANAGER /\ GCP_PROJECT_ID = None
    /\ pc = "exited" /\ secret_lookups = 0

\* The program points before the loop, and the end of main.
BeforeLoop ==
    {"main", "resolve", "access_secret", "check_credentials", "exited"}

\* C10: with the resolved identity or secret unset or empty the loop is
\* never entered: no cycle runs and no session is created.
C10_NoCycleWithoutCredentials ==
    ~Truthy(locals.google_email) \/ ~Truthy(locals.google_password) =>
        /\ pc \in BeforeLoop
        /\ cycle = 0 /\ scopes = 0 /\ sessions = 0

\* Environment mode with the password unset: main returned at the check.
C10_Witness ==
    /\ ~USE_SECRETS_MANAGER /\ Truthy(GOOGLE_EMAIL) /\ GOOGLE_PASSWORD = None
    /\ locals.google_email = GOOGLE_EMAIL
    /\ pc = "exited"

\* C11: a graceful interrupt shutdown ends the process with exit code 0,
\* and a startup abort (main returning before the loop) ends it with a
\* non-zero exit code.
C11_StartupAbortExitsNonZero ==
    pc = "exited" =>
        /\ exit_code # {}
        /\ interrupted => exit_code = {0}
        /\ ~interrupted => 0 \notin exit_code

\* C12: main ends before the loop only for want of the project id in
\* secret-backend mode or of an identity credential; failing to resolve a
\* notification-only value (sender, SMTP host, port, user, password) does
\* not end it.
C12_OnlyIdentityAbortsStartup ==
    pc = "exited" /\ cycle = 0 /\ ~interrupted =>
        \/ USE_SECRETS_MANAGER /\ ~Truthy(GCP_PROJECT_ID)
        \/ ~Truthy(locals.google_email)
        \/ ~Truthy(locals.google_password)

\* C13: between the end of a cycle and the start of the next the loop
\* completes exactly one sleep, of the fixed interval, whether the cycle
\* succeeded or failed: cycle k runs after k-1 sleeps and is followed by
\* the k-th, so no cycle starts without the sleep or during another cycle.
C13_OneSleepBetweenCycles ==
    /\ \A i \in 1..Len(sleeps) : sleeps[i] = 1800
    /\ cycle = 0 => sleeps = <<>>
    /\ cycle >= 1 /\ pc # "loop" => Len(sleeps) + 1 = cycle
    /\ cycle >= 1 /\ pc = "loop" => Len(sleeps) = cycle
    /\ pc = "sleep" => result \in {"completed", "failed"}

\* Cycle 2 runs after a failed cycle 1 and one sleep; a completed cycle 1
\* is sleeping.
C13_Witness ==
    cycle = 2 /\ pc = "launch" /\ captures = 0 /\ sleeps = <<1800>>

(***************************************************************************)
(* Recipient loading on its own, over every small file                     *)
(***************************************************************************)

InitLoad ==
    /\ USE_SECRETS_MANAGER = FALSE
    /\ GCP_PROJECT_ID = None
    /\ GOOGLE_EMAIL = Addr_a /\ GOOGLE_PASSWORD = Addr_a
    /\ EMAIL_SENDER = None /\ EMAIL_SMTP_SERVER = None
    /\ EMAIL_SMTP_SERVER_PORT = None
    /\ EMAIL_SMTP_USER = None /\ EMAIL_SMTP_PASSWORD = None
    /\ EMAIL_RECIPIENT \in {None, <<>>, <<"r">>}
    /\ EMAIL_SMTP_SERVER_PORT_SECRET = <<"n">>
    /\ recipients_file \in AllRecipientFiles
    /\ recipients = <<>>
    /\ locals = [google_email |-> None, google_password |-> None,
                 sender |-> None, smtp_server |-> None, smtp_port |-> None,
                 smtp_user |-> None, smtp_password |-> None]
    /\ email_config = <<>>
    /\ pc = "main" /\ secret_idx = 1 /\ cycle = 0 /\ interrupted = FALSE
    /\ exit_code = {}
    /\ sleeps = <<>>
    /\ playwright = FALSE /\ sessions = 0 /\ scopes = 0 /\ teardowns = 0
    /\ artifact = 0
    /\ secret_lookups = 0 /\ recipient_loads = 0
    /\ captures = 0 /\ notifications = 0
    /\ visited = <<"Idle">> /\ error = "none" /\ handler = "none"
    /\ result = "none" /\ smtp_opened = 0 /\ smtp_connected = FALSE
    /\ sent = 0 /\ msg = <<>> /\ outbox = <<>>

SpecLoad == InitLoad /\ [][main_load_recipients]_vars

FileReadable == recipients_file # FileMissing /\ recipients_file # FileUnreadable

\* Positions of a line that hold a non-whitespace character.
Ink(line) == { i \in 1..Len(line) : line[i] \notin Whitespace }
Least(S) == CHOOSE x \in S : \A y \in S : x <= y
Greatest(S) == CHOOSE x \in S : \A y \in S : x >= y
\* The line from its first to its last non-whitespace character.
Core(line) == SubSeq(line, Least(Ink(line)), Greatest(Ink(line)))
\* Indices of the lines of the file that are not blank.
KeptLines == { i \in 1..Len(recipients_file) : Ink(recipients_file[i]) # {} }
\* The index of the j-th non-blank line.
Kept(j) ==
    CHOOSE i \in KeptLines : Cardinality({ k \in KeptLines : k <= i }) = j

\* C14: for a readable file the loaded list has one entry per non-blank
\* line, in file order, each the line without its surrounding whitespace;
\* blank and whitespace-only lines are dropped and nothing else is added or
\* removed.
C14_StrippedNonBlankLines ==
    pc # "main" /\ FileReadable =>
        /\ Len(recipients) = Cardinality(KeptLines)
        /\ \A j \in 1..Len(recipients) :
              recipients[j] = Core(recipients_file[Kept(j)])

\* A blank-only line is dropped and a padded line is stripped.
C14_Witness ==
    /\ pc = "resolve"
    /\ FileReadable
    /\ Len(recipients_file) = 2
    /\ recipients_file[1] = <<" ", "\n">>
    /\ recipients_file[2] = <<" ", "a", "\n">>
    /\ recipients = << <<"a">> >>

\* C15: a readable file alone determines the list, also when it yields no
\* address and EMAIL_RECIPIENT is set; EMAIL_RECIPIENT is used only when
\* the file is missing or unreadable, and without either the list is empty.
C15_FileBeforeEnvironment ==
    pc # "main" =>
        /\ FileReadable =>
              /\ KeptLines = {} => recipients = <<>>
              /\ \A j \in 1..Len(recipients) :
                    \E i \in KeptLines : recipients[j] = Core(recipients_file[i])
        /\ ~FileReadable /\ EMAIL_RECIPIENT \notin {None, <<>>} =>
              recipients = <<EMAIL_RECIPIENT>>
        /\ ~FileReadable /\ EMAIL_RECIPIENT \in {None, <<>>} =>
              recipients = <<>>

\* A readable file without addresses wins over a set EMAIL_RECIPIENT.
C15_Witness ==
    /\ pc = "resolve"
    /\ FileReadable
    /\ Len(recipients_file) = 1 /\ recipients_file[1] = <<" ", "\n">>
    /\ EMAIL_RECIPIENT = <<"r">>
    /\ recipients = <<>>

\* The notifier has been invoked in the current cycle.
NotifierInvoked == Count(visited, "Notified") > 0
\* The notifier has returned (or the cycle has ended) and main has not.
NotifierReturned ==
    NotifierInvoked /\ pc \in {"cycle_completed", "sleep", "loop"}

\* C16: one notifier invocation opens at most one SMTP session and hands
\* the server at most one message; every message it sends carries exactly
\* one attachment and is addressed to all configured recipients together;
\* and an invocation with a readable artifact in which no SMTP step fails
\* has opened exactly one session and sent exactly one message.
C16_OneMessageForAll ==
    /\ Count(visited, "Notified") <= 1
    /\ smtp_opened <= 1
    /\ Len(outbox) <= 1 /\ sent = Len(outbox)
    /\ \A i \in 1..Len(outbox) :
          /\ Len(outbox[i].attachments) = 1
          /\ outbox[i].To = join(<<",", " ">>, recipients)
          /\ \A r \in 1..Len(recipients) :
                \E k \in 1..Len(outbox[i].To) :
                    SubSeq(outbox[i].To, k, k + Len(recipients[r]) - 1)
                        = recipients[r]
    /\ NotifierReturned /\ error = "none" =>
          smtp_opened = 1 /\ Len(outbox) = 1

\* Two recipients, a complete configuration, one message to "a, b".
C16_Witness ==
    /\ NotifierReturned /\ error = "none"
    /\ recipients = << <<"a">>, <<"b">> >>
    /\ Truthy(locals.sender) /\ Truthy(locals.smtp_server)
    /\ Truthy(locals.smtp_user) /\ Truthy(locals.smtp_password)
    /\ Len(outbox) = 1
    /\ outbox[1].To = <<"a", ",", " ", "b">>

\* C17: every wait of authentication and capture runs under a timeout, so
\* a cycle that starts reaches Closed, its session and driver gone, unless
\* the process is interrupted first, also when the page never shows what a
\* wait is for; no cycle is left waiting for ever.
C17_EveryCycleCloses ==
    /\ \A k \in 1..MaxCycles :
          (cycle = k /\ pc = "async_playwright")
              ~> \/ /\ cycle = k /\ Count(visited, "Closed") = 1
                    /\ sessions = 0 /\ ~playwright
                 \/ pc = "exited"

\* A wait has timed out and the cycle is closed.
C17_Witness ==
    /\ error \in {"LoginTimeout", "CaptureTimeout"}
    /\ pc = "sleep" /\ phase = "Closed" /\ sessions = 0 /\ ~playwright

\* C18: capture navigates, waits for the root element, sleeps the settle
\* delay and then takes the screenshot, in that order: the artifact is
\* written only by the screenshot step, which is entered only from the
\* settle delay, which is entered only from a readiness wait that returned;
\* and a readiness wait that times out ends the cycle with the artifact
\* and the capture count as they were.
C18_CaptureOrder ==
    /\ [][artifact' # artifact \/ captures' # captures
            => pc = "screenshot" /\ artifact' = cycle]_vars
    /\ [][pc' = "screenshot" => pc = "settle_sleep"]_vars
    /\ [][pc' = "settle_sleep" => pc = "wait_for_body" /\ error' = "none"]_vars
    /\ [][pc' = "wait_for_body" => pc = "goto_teleop"]_vars
    /\ [][pc = "wait_for_body" /\ pc' # "settle_sleep" /\ ~interrupted'
            => /\ error' = "CaptureTimeout" /\ pc' = "sleep"
               /\ artifact' = artifact /\ captures' = captures]_vars

\* Cycle 2 timed out waiting for the root element; the artifact is still
\* the one cycle 1 wrote.
C18_Witness ==
    cycle = 2 /\ error = "CaptureTimeout" /\ artifact = 1 /\ captures = 1

\* C19: every message built or sent in cycle k attaches the artifact that
\* cycle k's own capture wrote: the notifier is invoked only in a cycle
\* whose capture succeeded, the file it reads is that capture's, and a
\* cycle whose session, login or capture failed invokes no notifier and
\* sends nothing, whatever an earlier cycle left at the output path.
C19_OwnArtifactOnly ==
    /\ \A i \in 1..Len(outbox) : outbox[i].attachments = <<cycle>>
    /\ \A i \in 1..Len(msg) :
          \A a \in 1..Len(msg[i].attachments) : msg[i].attachments[a] = cycle
    /\ NotifierInvoked => Count(visited, "Captured") = 1 /\ artifact = cycle
    /\ cycle >= 1 /\ Count(visited, "Captured") = 0 =>
          ~NotifierInvoked /\ msg = <<>> /\ outbox = <<>>

\* Cycle 1 captured and sent its artifact; cycle 2 failed before its
\* capture with that artifact still on disk, and sent nothing.
C19_Witness ==
    /\ cycle = 2 /\ pc = "sleep" /\ error \in ScopeErrors
    /\ artifact = 1 /\ notifications = 1 /\ outbox = <<>>

\* The loop of main has been entered.
LoopEntered == pc = "loop" \/ cycle >= 1

\* C20: the credentials, the recipient list and the SMTP configuration are
\* resolved before the loop and no step taken once the loop is entered
\* changes them: no cycle, failing or not, reads the recipient file or looks
\* up a secret, so every cycle runs with the values of cycle 1.
C20_ResolvedOnce ==
    /\ [][LoopEntered =>
            /\ recipients' = recipients
            /\ locals' = locals
            /\ email_config' = email_config
            /\ secret_lookups' = secret_lookups
            /\ recipient_loads' = recipient_loads]_vars
    /\ [](LoopEntered => recipient_loads = 1 /\ secret_lookups <= Len(SecretOrder))

\* Cycle 2 has failed after a completed notification in cycle 1, with the
\* secrets looked up and the file read before the loop only.
C20_Witness ==
    /\ cycle = 2 /\ pc = "sleep" /\ error # "none" /\ notifications >= 1
    /\ USE_SECRETS_MANAGER /\ secret_lookups >= 6 /\ recipient_loads = 1

====
